---- MODULE Spec2Model ----
(***************************************************************************)
(* Model of the gazelle merger's fixers (package merger):                  *)
(*   FixFile / squashCgoLibrary, squashExpr / squashList / squashDict,     *)
(*   FixLoads / fixLoad and the known-load registry.                       *)
(*                                                                         *)
(* A build file is a slice of statements over a backing array.  Slices    *)
(* that share a backing array are modelled through the variable heap, so  *)
(* that an append into a shared array is seen by every slice over it.     *)
(***************************************************************************)
EXTENDS Integers, Sequences, FiniteSets, TLC

VARIABLES
  pc,        \* position of the caller: "init", "once", "twice"
  heap,      \* FixFile: backing arrays of statement slices, by array id
  inStmt,    \* FixFile: the statements of the input file as parsed
  oldFile,   \* FixFile: the input file value (slice header over heap)
  fixed1,    \* FixFile: the file returned by the first application
  fixed2,    \* FixFile: the file returned by the second application
  ret1,      \* FixFile: the statement sequence of fixed1 when it was returned
  sx, sy,    \* squash engine: the two operands
  sres,      \* squash engine: the returned (value, error) pair
  lfile,     \* FixLoads: the statements of the input file as parsed
  lold,      \* FixLoads: the nodes of the input file as they are in memory
  lout1,     \* FixLoads: the file returned by the first application
  lout2      \* FixLoads: the file returned by the second application

vars == <<pc, heap, inStmt, oldFile, fixed1, fixed2, ret1,
          sx, sy, sres, lfile, lold, lout1, lout2>>

fixVars    == <<heap, inStmt, oldFile, fixed1, fixed2, ret1>>
squashVars == <<sx, sy, sres>>
loadVars   == <<lfile, lold, lout1, lout2>>

----------------------------------------------------------------------------
(* Bounds of the model.                                                    *)

MaxStmts == 3
MaxLoadStmts == 3

----------------------------------------------------------------------------
(* Expression model (bf.Expr).  Every node is a record with a tag t.       *)

Nil == [t |-> "nil"]

NoComments == [Before |-> <<>>, Suffix |-> <<>>, After |-> <<>>]

ListExpr(elems, com) == [t |-> "list", list |-> elems, com |-> com]

StringExpr(v) == [t |-> "str", v |-> v]

LiteralExpr(tok) == [t |-> "lit", tok |-> tok]

KeyValueExpr(key, val) == [t |-> "kv", key |-> key, val |-> val]

DictExpr(entries, com) == [t |-> "dict", list |-> entries, com |-> com]

\* A positional call such as select({...}): X is the literal x.
SelectCall(x, args) == [t |-> "selcall", x |-> x, list |-> args]

BinaryExpr(x, op, y) == [t |-> "binary", x |-> x, op |-> op, y |-> y]

\* An attribute of a rule: the BinaryExpr  key = val  in Call.List.
AttrExpr(key, val) == [t |-> "attr", key |-> key, val |-> val]

\* A top-level call.  id stands for the identity of the node (its address);
\* x is the token of the called literal.
CallExpr(id, x, list, com) ==
  [t |-> "call", id |-> id, x |-> x, list |-> list, com |-> com, ForceCompact |-> FALSE]

\* A top-level statement that is not a call (an assignment, a comment block).
OtherStmt(id) == [t |-> "other", id |-> id]

----------------------------------------------------------------------------
(* Squash engine.                                                          *)

ErrResult == [list |-> Nil, dict |-> Nil, err |-> TRUE]

IsSelectOfDict(e) ==
  /\ e.t = "selcall"
  /\ e.x = "select"
  /\ Len(e.list) = 1
  /\ e.list[1].t = "dict"
  /\ \A i \in 1..Len(e.list[1].list) :
        /\ e.list[1].list[i].t = "kv"
        /\ e.list[1].list[i].key.t = "str"

\* Decomposition of an attribute value into its list part and its dict part.
exprListAndDict(e) ==
  IF e = Nil THEN [list |-> Nil, dict |-> Nil, err |-> FALSE]
  ELSE IF e.t = "list" THEN [list |-> e, dict |-> Nil, err |-> FALSE]
  ELSE IF e.t = "selcall" THEN
    IF IsSelectOfDict(e)
      THEN [list |-> Nil, dict |-> e.list[1], err |-> FALSE]
      ELSE ErrResult
  ELSE IF e.t = "binary" THEN
    IF e.op = "+" /\ e.x.t = "list" /\ IsSelectOfDict(e.y)
      THEN [list |-> e.x, dict |-> e.y.list[1], err |-> FALSE]
      ELSE ErrResult
  ELSE ErrResult

appendComments(a, b) ==
  [Before |-> a.Before \o b.Before,
   Suffix |-> a.Suffix \o b.Suffix,
   After  |-> a.After \o b.After]

\* A faulty variant: de-duplicates the appended elements.
squashListDedup(x, y) ==
  IF x = Nil THEN y
  ELSE IF y = Nil THEN x
  ELSE [x EXCEPT !.com = appendComments(x.com, y.com),
                 !.list = x.list \o SelectSeq(y.list,
                             LAMBDA e : \A i \in 1..Len(x.list) : x.list[i] # e)]

squashList(x, y) ==
  IF x = Nil THEN y
  ELSE IF y = Nil THEN x
  ELSE [x EXCEPT !.com = appendComments(x.com, y.com),
                 !.list = x.list \o y.list]

\* xCaseIndex: string key -> index of its (last) entry in x.List.
xCaseKeys(xl) ==
  {xl[i].key.v : i \in {j \in 1..Len(xl) : xl[j].t = "kv" /\ xl[j].key.t = "str"}}

xCaseIndex(xl) ==
  [k \in xCaseKeys(xl) |->
     CHOOSE i \in 1..Len(xl) :
       /\ xl[i].t = "kv" /\ xl[i].key.t = "str" /\ xl[i].key.v = k
       /\ \A j \in (i+1)..Len(xl) :
            ~(xl[j].t = "kv" /\ xl[j].key.t = "str" /\ xl[j].key.v = k)]

RECURSIVE squashExpr(_, _)
RECURSIVE squashDict(_, _)
RECURSIVE squashDictLoop(_, _, _)

\* The loop over y.List.  acc is squashed.List, which shares x.List's
\* backing array, so the assignment x.List[i] = ... is an update of acc[i].
\* The key is taken from the entry e itself (e.(*bf.StringExpr)), not from
\* kv.Key: an entry that is a KeyValueExpr is never a StringExpr.
squashDictLoop(acc, idx, ys) ==
  IF ys = <<>> THEN [list |-> acc, err |-> FALSE]
  ELSE LET e == Head(ys) IN
    IF e.t # "kv" THEN squashDictLoop(Append(acc, e), idx, Tail(ys))
    ELSE IF e.t # "str" THEN squashDictLoop(Append(acc, e), idx, Tail(ys))
    ELSE IF e.v \notin DOMAIN idx THEN squashDictLoop(Append(acc, e), idx, Tail(ys))
    ELSE LET r == squashExpr(acc[idx[e.v]], e.val) IN
      IF r.err THEN [list |-> acc, err |-> TRUE]
      ELSE squashDictLoop([acc EXCEPT ![idx[e.v]] = r.expr], idx, Tail(ys))

squashDict(x, y) ==
  IF x = Nil THEN [dict |-> y, err |-> FALSE]
  ELSE IF y = Nil THEN [dict |-> x, err |-> FALSE]
  ELSE LET r == squashDictLoop(x.list, xCaseIndex(x.list), y.list) IN
    IF r.err THEN [dict |-> Nil, err |-> TRUE]
    ELSE [dict |-> [x EXCEPT !.com = appendComments(x.com, y.com),
                             !.list = r.list],
          err |-> FALSE]

squashExpr(x, y) ==
  LET xd == exprListAndDict(x)
      yd == exprListAndDict(y)
  IN IF xd.err \/ yd.err THEN [expr |-> Nil, err |-> TRUE]
     ELSE LET squashedList == squashList(xd.list, yd.list)
              sd == squashDict(xd.dict, yd.dict)
          IN IF sd.err THEN [expr |-> Nil, err |-> TRUE]
             ELSE LET squashedDict == sd.dict
                      squashedSelect ==
                        IF squashedDict # Nil
                          THEN SelectCall("select", <<squashedDict>>)
                          ELSE Nil
                  IN IF squashedList = Nil
                       THEN [expr |-> squashedDict, err |-> FALSE]
                     ELSE IF squashedSelect = Nil
                       THEN [expr |-> squashedList, err |-> FALSE]
                     ELSE [expr |-> BinaryExpr(squashedList, "+", squashedSelect),
                           err |-> FALSE]

----------------------------------------------------------------------------
(* Rule view (bf.Rule) over a call.                                        *)

DefaultLibName == "go_default_library"

DefaultCgoLibName == "cgo_default_library"

KeepComment == "# keep"

HasKeep(group) == \E i \in 1..Len(group) : group[i] = KeepComment

shouldKeep(c) == HasKeep(c.com.Before) \/ HasKeep(c.com.Suffix) \/ HasKeep(c.com.After)

Kind(c) == c.x

AttrIndex(c, key) ==
  LET S == {i \in 1..Len(c.list) : c.list[i].t = "attr" /\ c.list[i].key = key}
  IN IF S = {} THEN 0 ELSE CHOOSE i \in S : \A j \in S : i <= j

\* Rule.Attr: the value of the attribute, Nil when absent.
Attr(c, key) == IF AttrIndex(c, key) = 0 THEN Nil ELSE c.list[AttrIndex(c, key)].val

Name(c) ==
  IF Attr(c, "name") # Nil /\ Attr(c, "name").t = "str" THEN Attr(c, "name").v ELSE ""

SetAttr(c, key, val) ==
  IF AttrIndex(c, key) = 0
    THEN [c EXCEPT !.list = Append(c.list, AttrExpr(key, val))]
    ELSE [c EXCEPT !.list[AttrIndex(c, key)].val = val]

DelAttr(c, key) ==
  IF AttrIndex(c, key) = 0 THEN c
  ELSE [c EXCEPT !.list = SubSeq(c.list, 1, AttrIndex(c, key) - 1)
                          \o SubSeq(c.list, AttrIndex(c, key) + 1, Len(c.list))]

----------------------------------------------------------------------------
(* Cgo-library fixer.                                                      *)

\* The default cgo_library the scan looks for (line 59).
IsDefaultCgoLibrary(s) ==
  /\ s.t = "call"
  /\ Kind(s) = "cgo_library"
  /\ Name(s) = DefaultCgoLibName
  /\ ~shouldKeep(s)

\* The default go_library the scan looks for (line 68).
IsDefaultGoLibrary(s) ==
  /\ s.t = "call"
  /\ ~IsDefaultCgoLibrary(s)
  /\ Kind(s) = "go_library"
  /\ Name(s) = DefaultLibName

\* Index of the first match (1-based), 0 when there is none: later matches
\* are logged and skipped.
cgoLibraryIndex(stmts) ==
  LET S == {i \in 1..Len(stmts) : IsDefaultCgoLibrary(stmts[i])}
  IN IF S = {} THEN 0 ELSE CHOOSE i \in S : \A j \in S : i <= j

\* A faulty variant: the scan keeps the last default go_library it meets.
goLibraryIndexLast(stmts) ==
  LET S == {i \in 1..Len(stmts) : IsDefaultGoLibrary(stmts[i])}
  IN IF S = {} THEN 0 ELSE CHOOSE i \in S : \A j \in S : i >= j

goLibraryIndex(stmts) ==
  LET S == {i \in 1..Len(stmts) : IsDefaultGoLibrary(stmts[i])}
  IN IF S = {} THEN 0 ELSE CHOOSE i \in S : \A j \in S : i <= j

SquashKeys == <<"cdeps", "clinkopts", "copts", "data", "deps", "gc_goopts", "srcs">>

\* The loop of lines 111-120 over the remaining keys.
RECURSIVE squashAttrs(_, _, _)
squashAttrs(fixedGoLibrary, cgoLibrary, keys) ==
  IF keys = <<>> THEN fixedGoLibrary
  ELSE LET key == Head(keys)
           goLibraryAttr == Attr(fixedGoLibrary, key)
           cgoLibraryAttr == Attr(cgoLibrary, key)
           r == squashExpr(goLibraryAttr, cgoLibraryAttr)
       IN IF cgoLibraryAttr = Nil
            THEN squashAttrs(fixedGoLibrary, cgoLibrary, Tail(keys))
          ELSE IF ~r.err
            THEN squashAttrs(SetAttr(fixedGoLibrary, key, r.expr), cgoLibrary, Tail(keys))
          ELSE squashAttrs(fixedGoLibrary, cgoLibrary, Tail(keys))

\* Lines 91-120: the rebuilt go_library, a new node nid.  goLibrary is Nil
\* when the file has no default go_library.
fixedGoLibraryExpr(goLibrary, cgoLibrary, nid) ==
  LET empty == CallExpr(nid, "go_library", <<>>, NoComments)
      named == SetAttr(empty, "name", StringExpr(DefaultLibName))
      start ==
        IF goLibrary = Nil THEN
          IF Attr(cgoLibrary, "visibility") # Nil
            THEN SetAttr(named, "visibility", Attr(cgoLibrary, "visibility"))
            ELSE named
        ELSE [goLibrary EXCEPT !.id = nid]
      marked == SetAttr(DelAttr(start, "library"), "cgo", LiteralExpr("True"))
      commented == [marked EXCEPT !.com = appendComments(marked.com, cgoLibrary.com)]
  IN squashAttrs(commented, cgoLibrary, SquashKeys)

\* A file value: a slice header (array id, length) over heap.
File(arr, len) == [arr |-> arr, len |-> len]

Stmts(h, f) == SubSeq(h[f.arr], 1, f.len)

\* A faulty variant: removes the slot after c (an off-by-one in the slice bounds).
RemoveInPlaceOffByOne(a, c, n) ==
  IF c + 1 >= n THEN a
  ELSE SubSeq(a, 1, c) \o SubSeq(a, c + 2, n) \o SubSeq(a, n, Len(a))

\* append(a[:c-1], a[c:n]...) on a slice of length n: there is room, so the
\* elements move down inside the backing array a, whose slot n keeps its value.
RemoveInPlace(a, c, n) ==
  SubSeq(a, 1, c - 1) \o SubSeq(a, c + 1, n) \o SubSeq(a, n, Len(a))

\* squashCgoLibrary on file f in heap h; call is the number of the call, used
\* to name what the call allocates.  The result is the heap after the call and
\* the returned file.
squashCgoLibrary(h, f, call) ==
  LET stmts == Stmts(h, f)
      c == cgoLibraryIndex(stmts)
      g == goLibraryIndex(stmts)
      fixed == fixedGoLibraryExpr(IF g = 0 THEN Nil ELSE stmts[g], stmts[c], 0 - call)
      g2 == IF g > c THEN g - 1 ELSE g
      moved == RemoveInPlace(h[f.arr], c, f.len)
  IN IF c = 0 THEN [heap |-> h, file |-> f]
     ELSE IF g # 0 /\ shouldKeep(stmts[g]) THEN
       [heap |-> [h EXCEPT ![f.arr] = moved],
        file |-> File(f.arr, f.len - 1)]
     ELSE IF g = 0 THEN
       [heap |-> [h EXCEPT ![call] = [stmts EXCEPT ![c] = fixed]],
        file |-> File(call, f.len)]
     ELSE
       [heap |-> [h EXCEPT ![f.arr] = [moved EXCEPT ![g2] = fixed]],
        file |-> File(f.arr, f.len - 1)]

FixFile(h, f, call) == squashCgoLibrary(h, f, call)

----------------------------------------------------------------------------
(* Load fixer: the registry.                                               *)

GoDef == "@io_bazel_rules_go//go:def.bzl"

ProtoDef == "@io_bazel_rules_go//proto:def.bzl"

knownLoads ==
  << [file |-> GoDef,
      kinds |-> <<"cgo_library", "go_binary", "go_library", "go_prefix", "go_test">>],
     [file |-> ProtoDef,
      kinds |-> <<"go_grpc_library", "go_proto_library">>] >>

Range(q) == {q[i] : i \in 1..Len(q)}

knownFiles == {knownLoads[i].file : i \in 1..Len(knownLoads)}

\* knownKinds[k]: the file that owns symbol k, "" for a symbol of no file.
knownKinds(k) ==
  LET S == {i \in 1..Len(knownLoads) : k \in Range(knownLoads[i].kinds)}
  IN IF S = {} THEN "" ELSE knownLoads[CHOOSE i \in S : \A j \in S : i >= j].file

\* The strings of the model in lexicographic (byte) order: s < t of Go
\* strings is the order of their positions here.
SymbolOrder ==
  << "a_library", "cgo_library", "go_binary", "go_grpc_library", "go_library",
     "go_prefix", "go_proto_library", "go_test", "x_library" >>

Rank(v) == CHOOSE i \in 1..Len(SymbolOrder) : SymbolOrder[i] = v

\* byString.Less
Less(a, b) == Rank(a.v) < Rank(b.v)

\* Insertion of e behind every element that is not greater than e.
RECURSIVE insertStable(_, _)
insertStable(sorted, e) ==
  IF sorted = <<>> THEN <<e>>
  ELSE IF Less(e, Head(sorted)) THEN <<e>> \o sorted
  ELSE <<Head(sorted)>> \o insertStable(Tail(sorted), e)

RECURSIVE sortFrom(_, _)
sortFrom(sorted, rest) ==
  IF rest = <<>> THEN sorted ELSE sortFrom(insertStable(sorted, Head(rest)), Tail(rest))

\* A faulty variant: the symbols are left in the order they were collected.
sortStableMissing(symbols) == symbols

\* sort.Stable(byString(symbols)): the sorted permutation that keeps equal
\* elements in their original order.
sortStable(symbols) == sortFrom(<<>>, symbols)

----------------------------------------------------------------------------
(* Load fixer: fixLoad.                                                    *)

Args(load) == SubSeq(load.list, 2, Len(load.list))

\* Lines 446-457: the string arguments that stay.
keptSymbols(args, kinds) ==
  SelectSeq(args, LAMBDA a : a.t = "str" /\ (knownKinds(a.v) = "" \/ a.v \in kinds))

removedCount(args, kinds) ==
  Len(SelectSeq(args, LAMBDA a : a.t = "str" /\ ~(knownKinds(a.v) = "" \/ a.v \in kinds)))

collectOtherArgs(args) == SelectSeq(args, LAMBDA a : a.t # "str")

\* The string expressions &bf.StringExpr{Value: kind} for the kinds of q.
RECURSIVE stringExprs(_)
stringExprs(q) ==
  IF q = <<>> THEN <<>> ELSE <<StringExpr(Head(q))>> \o stringExprs(Tail(q))

\* A faulty variant: loadedKinds is never filled, so every used kind is added.
addedSymbolsAll(symbols, order) == stringExprs(order)

\* Lines 458-465: the used kinds that are not loaded yet, in the order the
\* map iteration yields them.
addedSymbols(symbols, order) ==
  LET loadedKinds == {symbols[i].v : i \in 1..Len(symbols)}
  IN stringExprs(SelectSeq(order, LAMBDA k : k \notin loadedKinds))

\* A faulty variant: the other arguments are put before the symbols.
fixedListOtherFirst(label, symbols, otherArgs) ==
  <<label>> \o otherArgs \o sortStable(symbols)

\* Lines 474-479: the rewritten argument list.
fixedList(label, symbols, otherArgs) ==
  <<label>> \o sortStable(symbols) \o otherArgs

\* The identity of the copy that fixLoad returns for a rewritten load.
CopyId(id) == 0 - id

\* fixLoad(load, file, kinds); order is the order in which the iteration
\* over the map kinds yields its keys.  A nil map is the empty set.
fixLoad(load, file, kinds, order) ==
  LET fixed ==
        IF load = Nil
          THEN [CallExpr(0, "load", <<StringExpr(file)>>, NoComments)
                  EXCEPT !.ForceCompact = TRUE]
          ELSE [load EXCEPT !.id = CopyId(load.id)]
      symbols0 == keptSymbols(Args(fixed), kinds)
      removed == removedCount(Args(fixed), kinds)
      otherArgs == collectOtherArgs(Args(fixed))
      new == addedSymbols(symbols0, order)
      added == Len(new)
      list == fixedList(fixed.list[1], symbols0 \o new, otherArgs)
  IN IF added = 0 /\ removed = 0 THEN
       IF load # Nil /\ Len(load.list) = 1 THEN Nil ELSE load
     ELSE IF Len(list) = 1 THEN Nil
     ELSE [fixed EXCEPT !.list = list]

\* What fixLoad leaves in load.List, the argument list of the node it was
\* given.  fixed.List[:1] shares load.List's backing array, so lines 476-479
\* write the new arguments over the old ones: the symbols one by one, which
\* hit the old array in every slot load.List shows, and the other arguments
\* in one append, which hits the old array only if the whole new list fits
\* its capacity (fits; certain when the new list is no longer than the old).
clobbered(load, file, kinds, order, fits) ==
  LET symbols0 == keptSymbols(Args(load), kinds)
      removed == removedCount(Args(load), kinds)
      otherArgs == collectOtherArgs(Args(load))
      new == addedSymbols(symbols0, order)
      list == fixedList(load.list[1], symbols0 \o new, otherArgs)
      nsym == 1 + Len(symbols0) + Len(new)
      RECURSIVE from(_)
      from(k) ==
        IF k > Len(load.list) THEN <<>>
        ELSE <<IF k <= nsym THEN list[k]
               ELSE IF k <= Len(list) /\ (Len(list) <= Len(load.list) \/ fits) THEN list[k]
               ELSE load.list[k]>> \o from(k + 1)
  IN IF (Len(new) = 0 /\ removed = 0) \/ Len(list) = 1 THEN load
     ELSE [load EXCEPT !.list = from(1)]

----------------------------------------------------------------------------
(* Load fixer: FixLoads.                                                   *)

IsLoad(s) ==
  /\ s.t = "call"
  /\ s.x = "load"
  /\ Len(s.list) > 0
  /\ s.list[1].t = "str"

\* The indexes of the loads of known files (loadInfo.index), lines 265-286.
loads(stmts) ==
  {i \in 1..Len(stmts) : IsLoad(stmts[i]) /\ stmts[i].list[1].v \in knownFiles}

loadsOf(stmts, file) == {i \in loads(stmts) : stmts[i].list[1].v = file}

\* Lines 287-299: what the loads of other files import.
otherLoadedKinds(stmts) ==
  UNION { {a.v : a \in {b \in Range(Args(stmts[i])) : b.t = "str"}}
            \cup {a.x.tok : a \in {b \in Range(Args(stmts[i])) :
                                     b.t = "binary" /\ b.op = "=" /\ b.x.t = "lit"}}
          : i \in {j \in 1..Len(stmts) :
                     IsLoad(stmts[j]) /\ stmts[j].list[1].v \notin knownFiles} }

\* A faulty variant: symbols loaded from other files are not left out.
usedKindsAll(stmts, file) ==
  {stmts[i].x : i \in {j \in 1..Len(stmts) :
      stmts[j].t = "call" /\ knownKinds(stmts[j].x) = file}}

\* Lines 303-321: usedKinds[file]; the empty set is the nil map.
usedKinds(stmts, file) ==
  {stmts[i].x : i \in {j \in 1..Len(stmts) :
      /\ stmts[j].t = "call"
      /\ knownKinds(stmts[j].x) = file
      /\ stmts[j].x \notin otherLoadedKinds(stmts)}}

\* Lines 330-342: li.fixed of the load at index i.
fixedLoad(stmts, i, order) ==
  LET file == stmts[i].list[1].v
      first == \A j \in loadsOf(stmts, file) : i <= j
  IN IF first
       THEN fixLoad(stmts[i], file, usedKinds(stmts, file), order[file])
       ELSE fixLoad(stmts[i], file, {}, <<>>)

\* Lines 343-349: the loads created for known files that have none, in the
\* order of knownLoads.
RECURSIVE newFirstLoadsFrom(_, _, _)
newFirstLoadsFrom(stmts, order, l) ==
  IF l > Len(knownLoads) THEN <<>>
  ELSE LET file == knownLoads[l].file
           load == fixLoad(Nil, file, usedKinds(stmts, file), order[file])
       IN (IF loadsOf(stmts, file) = {} /\ load # Nil THEN <<load>> ELSE <<>>)
            \o newFirstLoadsFrom(stmts, order, l + 1)

newFirstLoads(stmts, order) == newFirstLoadsFrom(stmts, order, 1)

\* Lines 362-371: the original statements with every known load replaced
\* by its fixed form, or left out when that is nil.
RECURSIVE replayFrom(_, _, _)
replayFrom(stmts, order, i) ==
  IF i > Len(stmts) THEN <<>>
  ELSE (IF i \in loads(stmts)
          THEN (IF fixedLoad(stmts, i, order) # Nil
                  THEN <<fixedLoad(stmts, i, order)>> ELSE <<>>)
          ELSE <<stmts[i]>>)
       \o replayFrom(stmts, order, i + 1)

\* A faulty variant: the new loads are put at the end of the file.
rebuildNewLast(stmts, order) ==
  replayFrom(stmts, order, 1) \o newFirstLoads(stmts, order)

\* Lines 355-372.
rebuild(stmts, order) ==
  newFirstLoads(stmts, order) \o replayFrom(stmts, order, 1)

\* The nodes of the input file after the call: every known load as fixLoad
\* left it.
RECURSIVE inputAfterFrom(_, _, _, _)
inputAfterFrom(stmts, order, fits, i) ==
  IF i > Len(stmts) THEN <<>>
  ELSE (IF i \in loads(stmts)
          THEN LET file == stmts[i].list[1].v
                   first == \A j \in loadsOf(stmts, file) : i <= j
               IN IF first
                    THEN <<clobbered(stmts[i], file, usedKinds(stmts, file), order[file], fits[i])>>
                    ELSE <<clobbered(stmts[i], file, {}, <<>>, fits[i])>>
          ELSE <<stmts[i]>>)
       \o inputAfterFrom(stmts, order, fits, i + 1)

inputAfter(stmts, order, fits) == inputAfterFrom(stmts, order, fits, 1)

changed(stmts, order) ==
  \/ \E i \in loads(stmts) : fixedLoad(stmts, i, order) # stmts[i]
  \/ newFirstLoads(stmts, order) # <<>>

FixLoads(stmts, order) ==
  IF ~changed(stmts, order)
    THEN [stmts |-> stmts, changed |-> FALSE]
    ELSE [stmts |-> rebuild(stmts, order), changed |-> TRUE]

\* The orders in which a map with the keys S can be iterated.
Orders(S) ==
  {q \in [1..Cardinality(S) -> S] : \A i, j \in 1..Cardinality(S) : q[i] = q[j] => i = j}

----------------------------------------------------------------------------
(* Inputs of the cgo-library fixer: files of at most MaxStmts statements   *)
(* drawn from the shapes below; a statement's id is its index in the file. *)

L(elems) == ListExpr(elems, NoComments)

Sel(key, elems) ==
  SelectCall("select", <<DictExpr(<<KeyValueExpr(StringExpr(key), L(elems))>>, NoComments)>>)

NameAttr(n) == AttrExpr("name", StringExpr(n))

FixShapes ==
  { CallExpr(0, "cgo_library",
      <<NameAttr(DefaultCgoLibName), AttrExpr("srcs", L(<<"a.go">>)),
        AttrExpr("deps", L(<<"//x", "//y">>)),
        AttrExpr("visibility", L(<<"//visibility:public">>))>>,
      [Before |-> <<"# legacy">>, Suffix |-> <<>>, After |-> <<>>]),
    CallExpr(0, "cgo_library",
      <<NameAttr(DefaultCgoLibName),
        AttrExpr("deps", BinaryExpr(L(<<"//x">>), "+", Sel("linux", <<"//z">>))),
        AttrExpr("copts", Sel("linux", <<"-O2">>))>>,
      NoComments),
    CallExpr(0, "cgo_library", <<NameAttr(DefaultCgoLibName), AttrExpr("deps", L(<<"//x">>))>>,
      [Before |-> <<KeepComment>>, Suffix |-> <<>>, After |-> <<>>]),
    CallExpr(0, "cgo_library", <<NameAttr("other"), AttrExpr("deps", L(<<"//x">>))>>, NoComments),
    CallExpr(0, "go_library",
      <<NameAttr(DefaultLibName), AttrExpr("srcs", L(<<"b.go">>)),
        AttrExpr("deps", L(<<"//y">>)),
        AttrExpr("library", StringExpr(":cgo_default_library"))>>,
      NoComments),
    CallExpr(0, "go_library",
      <<NameAttr(DefaultLibName), AttrExpr("cgo", LiteralExpr("False")),
        AttrExpr("deps", Sel("linux", <<"//w">>)),
        AttrExpr("copts", SelectCall("glob", <<>>))>>,
      NoComments),
    CallExpr(0, "go_library", <<NameAttr(DefaultLibName), AttrExpr("deps", L(<<"//y">>))>>,
      [Before |-> <<>>, Suffix |-> <<KeepComment>>, After |-> <<>>]),
    CallExpr(0, "go_library", <<NameAttr("other")>>, NoComments),
    CallExpr(0, "go_test", <<NameAttr("go_default_test")>>, NoComments),
    OtherStmt(0) }

RECURSIVE WithIdsFrom(_, _)
WithIdsFrom(f, i) ==
  IF i > Len(f) THEN <<>> ELSE <<[f[i] EXCEPT !.id = i]>> \o WithIdsFrom(f, i + 1)

WithIds(f) == WithIdsFrom(f, 1)

FixFiles == {WithIds(f) : f \in UNION {[1..n -> FixShapes] : n \in 0..MaxStmts}}

NoFile == File(0, 0)

NoResult == [expr |-> Nil, err |-> FALSE]

SquashIdle == sx = Nil /\ sy = Nil /\ sres = NoResult

NoOutput == [stmts |-> <<>>, changed |-> FALSE]

LoadsIdle == lfile = <<>> /\ lold = <<>> /\ lout1 = NoOutput /\ lout2 = NoOutput

FixIdle ==
  /\ heap = [a \in 0..2 |-> <<>>]
  /\ inStmt = <<>>
  /\ oldFile = NoFile
  /\ fixed1 = NoFile
  /\ fixed2 = NoFile
  /\ ret1 = <<>>

InitFix ==
  /\ pc = "init"
  /\ inStmt \in FixFiles
  /\ heap = [a \in 0..2 |-> IF a = 0 THEN inStmt ELSE <<>>]
  /\ oldFile = File(0, Len(inStmt))
  /\ fixed1 = NoFile
  /\ fixed2 = NoFile
  /\ ret1 = <<>>
  /\ SquashIdle
  /\ LoadsIdle

\* fixed1 = FixFile(oldFile)
FixFileOnce ==
  /\ pc = "init"
  /\ LET r == FixFile(heap, oldFile, 1)
     IN /\ heap' = r.heap
        /\ fixed1' = r.file
        /\ ret1' = Stmts(r.heap, r.file)
  /\ pc' = "once"
  /\ UNCHANGED <<inStmt, oldFile, fixed2, squashVars, loadVars>>

\* fixed2 = FixFile(fixed1)
FixFileTwice ==
  /\ pc = "once"
  /\ LET r == FixFile(heap, fixed1, 2)
     IN /\ heap' = r.heap
        /\ fixed2' = r.file
  /\ pc' = "twice"
  /\ UNCHANGED <<inStmt, oldFile, fixed1, ret1, squashVars, loadVars>>

NextFix == FixFileOnce \/ FixFileTwice

SpecFix == InitFix /\ [][NextFix]_vars

----------------------------------------------------------------------------
(* Properties of the cgo-library fixer.                                    *)

QualifyingCgo(stmts) == {i \in 1..Len(stmts) : IsDefaultCgoLibrary(stmts[i])}

DefaultGo(stmts) == {i \in 1..Len(stmts) : IsDefaultGoLibrary(stmts[i])}

\* C1 (as stated): for every input file, the statement sequence of
\* FixFile(FixFile(f)) is the statement sequence FixFile(f) returned.
C1_FixFileIdempotent ==
  pc = "twice" => Stmts(heap, fixed2) = ret1

\* C1 (amended): for every input file with at most one qualifying
\* cgo_library (default name, no keep marker), however many default-named
\* go_library rules it has, the second application returns the file the
\* first one returned, with the statement sequence the first one returned.
C1_FixFileIdempotentSingleCgo ==
  (pc = "twice" /\ Cardinality(QualifyingCgo(inStmt)) <= 1)
    => /\ fixed2 = fixed1
       /\ Stmts(heap, fixed2) = ret1
       /\ QualifyingCgo(ret1) = {}

C1_Witness ==
  /\ pc = "twice"
  /\ Cardinality(QualifyingCgo(inStmt)) = 1
  /\ Cardinality(DefaultGo(inStmt)) >= 2
  /\ ret1 # inStmt

\* The rebuilt go_library of the first application, when the input has a
\* qualifying cgo_library and a default go_library without the keep marker.
Squashed1 ==
  /\ pc = "once"
  /\ cgoLibraryIndex(inStmt) # 0
  /\ goLibraryIndex(inStmt) # 0
  /\ ~shouldKeep(inStmt[goLibraryIndex(inStmt)])

Rebuilt1 == ret1[CHOOSE i \in 1..Len(ret1) : ret1[i].id = 0 - 1]

BothLists(key) ==
  /\ Attr(inStmt[goLibraryIndex(inStmt)], key).t = "list"
  /\ Attr(inStmt[cgoLibraryIndex(inStmt)], key).t = "list"

\* C5: when a qualifying cgo_library is merged into an existing go_library
\* and both hold a plain list for one of the squashed keys, the rebuilt
\* attribute is the go_library's elements followed by the cgo_library's,
\* verbatim (length = sum of the lengths); the rebuilt rule has cgo = True
\* and no library attribute.
C5_SquashAppends ==
  Squashed1 =>
    /\ \E i \in 1..Len(ret1) : ret1[i].id = 0 - 1
    /\ Attr(Rebuilt1, "cgo") = LiteralExpr("True")
    /\ Attr(Rebuilt1, "library") = Nil
    /\ \A k \in 1..Len(SquashKeys) :
         BothLists(SquashKeys[k]) =>
           /\ Attr(Rebuilt1, SquashKeys[k]).t = "list"
           /\ Attr(Rebuilt1, SquashKeys[k]).list =
                Attr(inStmt[goLibraryIndex(inStmt)], SquashKeys[k]).list
                  \o Attr(inStmt[cgoLibraryIndex(inStmt)], SquashKeys[k]).list
           /\ Len(Attr(Rebuilt1, SquashKeys[k]).list) =
                Len(Attr(inStmt[goLibraryIndex(inStmt)], SquashKeys[k]).list)
                  + Len(Attr(inStmt[cgoLibraryIndex(inStmt)], SquashKeys[k]).list)

\* A merge where the two deps lists share an element and the go_library
\* carried a library attribute.
C5_Witness ==
  /\ Squashed1
  /\ BothLists("deps")
  /\ \E i \in 1..Len(Attr(inStmt[goLibraryIndex(inStmt)], "deps").list) :
       \E j \in 1..Len(Attr(inStmt[cgoLibraryIndex(inStmt)], "deps").list) :
         Attr(inStmt[goLibraryIndex(inStmt)], "deps").list[i]
           = Attr(inStmt[cgoLibraryIndex(inStmt)], "deps").list[j]
  /\ Attr(inStmt[goLibraryIndex(inStmt)], "library") # Nil

\* C6: after FixFile(f) returns, the input file's statement sequence has the
\* length and the statement at every index it had before the call.
C6_InputNotMutated ==
  pc = "once" => Stmts(heap, oldFile) = inStmt

\* The statements of s at the indices outside skip, in order.
RECURSIVE WithoutFrom(_, _, _)
WithoutFrom(s, skip, i) ==
  IF i > Len(s) THEN <<>>
  ELSE (IF i \in skip THEN <<>> ELSE <<s[i]>>) \o WithoutFrom(s, skip, i + 1)

Without(s, skip) == WithoutFrom(s, skip, 1)

First(S) == CHOOSE i \in S : \A j \in S : i <= j

\* A rebuilt or synthesized go_library: a node the input did not hold, of
\* kind go_library with the default name and cgo = True.
IsRebuiltGoLibrary(s) ==
  /\ s.t = "call"
  /\ \A i \in 1..Len(inStmt) : s.id # inStmt[i].id
  /\ Kind(s) = "go_library"
  /\ Name(s) = DefaultLibName
  /\ Attr(s, "cgo") = LiteralExpr("True")

\* The merge case for the cgo_library at c and the go_library at g: one
\* statement fewer, the rebuilt go_library at g (g < c) or g - 1 (g > c),
\* the cgo_library gone, every other statement kept in its relative order.
PlacedMerged(c, g) ==
  LET p == IF g < c THEN g ELSE g - 1
  IN /\ Len(ret1) = Len(inStmt) - 1
     /\ IsRebuiltGoLibrary(ret1[p])
     /\ \A i \in 1..Len(ret1) : ret1[i] # inStmt[c]
     /\ Without(ret1, {p}) = Without(inStmt, {c, g})

\* The synthesis case for the cgo_library at c: same length, the new
\* go_library at c, every other statement unchanged at its index.
PlacedNew(c) ==
  /\ Len(ret1) = Len(inStmt)
  /\ IsRebuiltGoLibrary(ret1[c])
  /\ \A i \in 1..Len(inStmt) : i # c => ret1[i] = inStmt[i]

\* C11 (as stated): for a qualifying cgo_library at any index c, if a
\* default-named go_library without the keep marker exists at any index g the
\* output is the merge placement for c and g; if no default-named go_library
\* exists the output is the synthesis placement for c.
C11_Placement ==
  pc = "once" =>
    \A c \in QualifyingCgo(inStmt) :
      /\ \A g \in DefaultGo(inStmt) :
           ~shouldKeep(inStmt[g]) => PlacedMerged(c, g)
      /\ DefaultGo(inStmt) = {} => PlacedNew(c)

\* C11 (amended): with c the index of the first qualifying cgo_library and g
\* the index of the first default-named go_library: if that go_library has no
\* keep marker the output is the merge placement for c and g (one statement
\* fewer, rebuilt rule at g or g - 1, the statement at c gone, the others in
\* their relative order); if no default-named go_library exists the output is
\* the synthesis placement for c (same length, new rule at c, the others
\* unchanged at their indices).
C11_PlacementFirstMatch ==
  (pc = "once" /\ QualifyingCgo(inStmt) # {}) =>
    LET c == First(QualifyingCgo(inStmt))
    IN /\ DefaultGo(inStmt) # {} =>
            LET g == First(DefaultGo(inStmt))
            IN ~shouldKeep(inStmt[g]) => PlacedMerged(c, g)
       /\ DefaultGo(inStmt) = {} => PlacedNew(c)

\* A merge into the first of two default go_library rules, both after the
\* cgo_library, so that the index shift applies and the second is left alone.
C11_Witness ==
  /\ pc = "once"
  /\ QualifyingCgo(inStmt) # {}
  /\ Cardinality(DefaultGo(inStmt)) >= 2
  /\ ~shouldKeep(inStmt[First(DefaultGo(inStmt))])
  /\ First(QualifyingCgo(inStmt)) < First(DefaultGo(inStmt))
  /\ IsRebuiltGoLibrary(ret1[First(DefaultGo(inStmt)) - 1])

\* A synthesis in the middle of the file: no default go_library, the
\* cgo_library between two other statements.
C11_WitnessNew ==
  /\ pc = "once"
  /\ DefaultGo(inStmt) = {}
  /\ QualifyingCgo(inStmt) = {2}
  /\ Len(inStmt) = 3
  /\ IsRebuiltGoLibrary(ret1[2])

----------------------------------------------------------------------------
(* The squash engine on its own: operands drawn from the shapes below.     *)

LC(elems, before) == ListExpr(elems, [Before |-> before, Suffix |-> <<>>, After |-> <<>>])

D(entries) == DictExpr(entries, NoComments)

KV(key, elems) == KeyValueExpr(StringExpr(key), L(elems))

DictShapes ==
  { D(<<KV("linux", <<"a">>)>>),
    D(<<KV("linux", <<"b">>), KV("darwin", <<"c">>)>>),
    D(<<KV("darwin", <<"d">>)>>) }

ExprShapes ==
  { Nil,
    L(<<"a">>),
    LC(<<"a", "b">>, <<"# first">>),
    SelectCall("glob", <<>>),
    BinaryExpr(L(<<"e">>), "+", SelectCall("select", <<D(<<KV("linux", <<"f">>)>>)>>)) }
  \cup {SelectCall("select", <<d>>) : d \in DictShapes}

InitSquash ==
  /\ pc = "init"
  /\ sx \in ExprShapes \cup DictShapes
  /\ sy \in ExprShapes \cup DictShapes
  /\ sres = NoResult
  /\ FixIdle
  /\ LoadsIdle

\* sres = squashExpr(sx, sy)
CallSquashExpr ==
  /\ pc = "init"
  /\ sres' = squashExpr(sx, sy)
  /\ pc' = "expr"
  /\ UNCHANGED <<sx, sy, fixVars, loadVars>>

\* sres = squashDict(sx, sy), for operands of type *bf.DictExpr
CallSquashDict ==
  /\ pc = "init"
  /\ sx \in DictShapes \cup {Nil}
  /\ sy \in DictShapes \cup {Nil}
  /\ sres' = [expr |-> squashDict(sx, sy).dict, err |-> squashDict(sx, sy).err]
  /\ pc' = "dict"
  /\ UNCHANGED <<sx, sy, fixVars, loadVars>>

NextSquash == CallSquashExpr \/ CallSquashDict

SpecSquash == InitSquash /\ [][NextSquash]_vars

HasList(e) == exprListAndDict(e).list # Nil

HasDict(e) == exprListAndDict(e).dict # Nil

IsSelectCall(e) ==
  e.t = "selcall" /\ e.x = "select" /\ Len(e.list) = 1 /\ e.list[1].t = "dict"

\* C7: for operands of recognized shapes, a merge that produces only a list
\* returns the list; one that produces only a dict returns select(dict),
\* never the bare dict; one that produces both returns list + select(dict).
C7_Recombine ==
  (pc = "expr" /\ ~exprListAndDict(sx).err /\ ~exprListAndDict(sy).err) =>
    /\ ~sres.err
    /\ ((HasList(sx) \/ HasList(sy)) /\ ~(HasDict(sx) \/ HasDict(sy)))
          => sres.expr.t = "list"
    /\ (~(HasList(sx) \/ HasList(sy)) /\ (HasDict(sx) \/ HasDict(sy)))
          => IsSelectCall(sres.expr)
    /\ ((HasList(sx) \/ HasList(sy)) /\ (HasDict(sx) \/ HasDict(sy)))
          => /\ sres.expr.t = "binary"
             /\ sres.expr.op = "+"
             /\ sres.expr.x.t = "list"
             /\ IsSelectCall(sres.expr.y)

StringKeys(d) == {d.list[i].key.v : i \in 1..Len(d.list)}

UniqueStringKeys(d) ==
  /\ \A i \in 1..Len(d.list) : d.list[i].t = "kv" /\ d.list[i].key.t = "str"
  /\ Cardinality(StringKeys(d)) = Len(d.list)

\* C8: for non-nil dicts x and y with unique string keys, an entry of y whose
\* key x already has is squashed into x's entry at the same position, key
\* unchanged, and is not appended: the result has one entry per key.
C8_KeyCollision ==
  (pc = "dict" /\ sx # Nil /\ sy # Nil /\ UniqueStringKeys(sx) /\ UniqueStringKeys(sy)) =>
    /\ ~sres.err
    /\ Len(sres.expr.list) = Cardinality(StringKeys(sx) \cup StringKeys(sy))
    /\ \A i \in 1..Len(sx.list) : \A j \in 1..Len(sy.list) :
         sx.list[i].key = sy.list[j].key =>
           /\ sres.expr.list[i].t = "kv"
           /\ sres.expr.list[i].key = sx.list[i].key
           /\ sres.expr.list[i].val = squashExpr(sx.list[i].val, sy.list[j].val).expr

----------------------------------------------------------------------------
(* The load fixer on its own: files of at most MaxLoadStmts statements     *)
(* drawn from the shapes below.                                            *)

OtherDef == "//tools:defs.bzl"

Load(args) == CallExpr(0, "load", args, NoComments)

Call(kind) == CallExpr(0, kind, <<>>, NoComments)

KwArg(name, value) == BinaryExpr(LiteralExpr(name), "=", StringExpr(value))

LoadShapes ==
  { Load(<<StringExpr(GoDef), StringExpr("go_library")>>),
    Load(<<StringExpr(GoDef), StringExpr("go_test"), StringExpr("go_library")>>),
    Load(<<StringExpr(GoDef), StringExpr("x_library"), StringExpr("go_binary"),
           StringExpr("a_library")>>),
    Load(<<StringExpr(GoDef)>>),
    Load(<<StringExpr(GoDef), KwArg("gl", "go_library"), KwArg("gp", "go_prefix"),
           StringExpr("go_test")>>),
    Load(<<StringExpr(ProtoDef), StringExpr("go_proto_library")>>),
    Load(<<StringExpr(ProtoDef), StringExpr("go_library"), StringExpr("go_grpc_library")>>),
    Load(<<StringExpr(OtherDef), StringExpr("go_library")>>),
    Load(<<StringExpr(OtherDef), KwArg("go_test", "my_test")>>),
    Load(<<LiteralExpr("DEFS"), StringExpr("go_binary")>>),
    Call("go_library"),
    Call("go_test"),
    Call("go_binary"),
    Call("go_proto_library"),
    Call("my_rule"),
    OtherStmt(0) }

InitLoads ==
  /\ pc = "init"
  /\ \E n \in 0..MaxLoadStmts : \E f \in [1..n -> LoadShapes] : lfile = WithIds(f)
  /\ lold = lfile
  /\ lout1 = NoOutput
  /\ lout2 = NoOutput
  /\ FixIdle
  /\ SquashIdle

\* The iteration orders of the maps usedKinds[file] of one call.
MapOrders(stmts) ==
  {o \in [knownFiles -> UNION {Orders(usedKinds(stmts, f)) : f \in knownFiles}] :
     \A f \in knownFiles : o[f] \in Orders(usedKinds(stmts, f))}

\* lout1 = FixLoads(lfile)
FixLoadsOnce ==
  /\ pc = "init"
  /\ \E order \in MapOrders(lfile) : \E fits \in [loads(lfile) -> BOOLEAN] :
       /\ lout1' = FixLoads(lfile, order)
       /\ lold' = inputAfter(lfile, order, fits)
  /\ pc' = "once"
  /\ UNCHANGED <<lfile, lout2, fixVars, squashVars>>

\* lout2 = FixLoads(lout1)
FixLoadsTwice ==
  /\ pc = "once"
  /\ \E order \in MapOrders(lout1.stmts) : lout2' = FixLoads(lout1.stmts, order)
  /\ pc' = "twice"
  /\ UNCHANGED <<lfile, lold, lout1, fixVars, squashVars>>

NextLoads == FixLoadsOnce \/ FixLoadsTwice

SpecLoads == InitLoads /\ [][NextLoads]_vars

----------------------------------------------------------------------------
(* Properties of the load fixer.                                           *)

\* C2: the second application of FixLoads returns the statement sequence
\* (with the same load arguments) that the first one returned, and reports
\* no change.
C2_FixLoadsIdempotent ==
  pc = "twice" => (lout2.stmts = lout1.stmts /\ ~lout2.changed)

\* A first application that changed a file holding two loads of the go
\* rules, a load of another file and nothing else.
C2_Witness ==
  /\ pc = "twice"
  /\ lout1.changed
  /\ Cardinality(loadsOf(lfile, GoDef)) >= 2
  /\ \E i \in 1..Len(lfile) : IsLoad(lfile[i]) /\ lfile[i].list[1].v \notin knownFiles

StringArgs(load) == SelectSeq(Args(load), LAMBDA a : a.t = "str")

ManagedArgs(load) == SelectSeq(Args(load), LAMBDA a : a.t = "str" /\ knownKinds(a.v) # "")

\* The registry symbols that the loads of file name as string arguments.
LoadedFrom(stmts, file) ==
  UNION {{a.v : a \in Range(ManagedArgs(stmts[i]))} : i \in loadsOf(stmts, file)}

OwnedBy(file) ==
  UNION {Range(knownLoads[l].kinds) : l \in {m \in 1..Len(knownLoads) : knownLoads[m].file = file}}

CalledKinds(stmts) == {stmts[i].x : i \in {j \in 1..Len(stmts) : stmts[j].t = "call"}}

\* What the loads of non-registry files import: bare strings and the left
\* sides of name = symbol arguments.
ImportedElsewhere(stmts) ==
  {v \in Range(SymbolOrder) :
     \E i \in 1..Len(stmts) :
       /\ IsLoad(stmts[i])
       /\ stmts[i].list[1].v \notin knownFiles
       /\ \E k \in 2..Len(stmts[i].list) :
            \/ stmts[i].list[k] = StringExpr(v)
            \/ /\ stmts[i].list[k].t = "binary"
               /\ stmts[i].list[k].op = "="
               /\ stmts[i].list[k].x = LiteralExpr(v)}

\* C3: after FixLoads, the registry symbols loaded from a registry file F
\* are exactly the symbols owned by F that are the kind of a top-level call,
\* minus those a load of a non-registry file imports.
C3_LoadCorrectness ==
  pc = "once" =>
    \A file \in knownFiles :
      LoadedFrom(lout1.stmts, file)
        = (OwnedBy(file) \cap CalledKinds(lfile)) \ ImportedElsewhere(lfile)

\* A file where a used symbol is imported from another file and a loaded
\* symbol had to be removed.
C3_Witness ==
  /\ pc = "once"
  /\ OwnedBy(GoDef) \cap CalledKinds(lfile) \cap ImportedElsewhere(lfile) # {}
  /\ \E file \in knownFiles :
       LoadedFrom(lfile, file) \ LoadedFrom(lout1.stmts, file) # {}

Sorted(q) == \A i, j \in 1..Len(q) : i < j => ~Less(q[j], q[i])

\* C4 (as stated): after FixLoads the managed symbols of every load of a
\* registry file are in lexicographic order.
C4_ManagedSorted ==
  pc = "once" =>
    \A i \in loads(lout1.stmts) : Sorted(ManagedArgs(lout1.stmts[i]))

\* A load that fixLoad rewrote (a copy) or created.
IsRewritten(s) == s.id <= 0

\* C4 (amended): the symbols of every load of a registry file that FixLoads
\* rewrote or created are in lexicographic order; a load that needed no
\* addition and no removal is returned as it was.
C4_RewrittenSorted ==
  pc = "once" =>
    \A i \in loads(lout1.stmts) :
      /\ IsRewritten(lout1.stmts[i]) =>
           (Sorted(ManagedArgs(lout1.stmts[i])) /\ Sorted(StringArgs(lout1.stmts[i])))
      /\ ~IsRewritten(lout1.stmts[i]) =>
           \E j \in loads(lfile) : lfile[j] = lout1.stmts[i]

\* A rewritten load with three symbols whose original listed them unsorted.
C4_Witness ==
  /\ pc = "once"
  /\ \E i \in loads(lout1.stmts) :
       /\ lout1.stmts[i].id < 0
       /\ Len(ManagedArgs(lout1.stmts[i])) >= 2
       /\ ~Sorted(StringArgs(lfile[0 - lout1.stmts[i].id]))

UnknownArgs(load) == SelectSeq(Args(load), LAMBDA a : a.t = "str" /\ knownKinds(a.v) = "")

NonStringArgs(load) == SelectSeq(Args(load), LAMBDA a : a.t # "str")

\* The rewritten loads of the output, by the index of their original.
RewrittenLoads == {i \in loads(lout1.stmts) : lout1.stmts[i].id < 0}

Original(i) == lfile[0 - lout1.stmts[i].id]

\* C9 (as stated): in a rewritten load the strings that are not registry
\* symbols keep their original relative order and come after the managed
\* symbols.
C9_UnknownAfterManaged ==
  pc = "once" =>
    \A i \in RewrittenLoads :
      /\ UnknownArgs(lout1.stmts[i]) = UnknownArgs(Original(i))
      /\ Args(lout1.stmts[i]) =
           ManagedArgs(lout1.stmts[i])
             \o SelectSeq(Args(lout1.stmts[i]),
                          LAMBDA a : ~(a.t = "str" /\ knownKinds(a.v) # ""))

Count(q, e) == Cardinality({i \in 1..Len(q) : q[i] = e})

\* C9 (amended): in a rewritten load the arguments that are not strings are
\* passed through verbatim in their original relative order, after all the
\* string arguments; the strings that are not registry symbols are all
\* kept, sorted by value together with the managed symbols.
C9_OtherArgsAfterSymbols ==
  pc = "once" =>
    \A i \in RewrittenLoads :
      /\ NonStringArgs(lout1.stmts[i]) = NonStringArgs(Original(i))
      /\ Args(lout1.stmts[i]) = StringArgs(lout1.stmts[i]) \o NonStringArgs(lout1.stmts[i])
      /\ Sorted(StringArgs(lout1.stmts[i]))
      /\ \A a \in Range(UnknownArgs(Original(i))) \cup Range(UnknownArgs(lout1.stmts[i])) :
           Count(Args(lout1.stmts[i]), a) = Count(Args(Original(i)), a)

\* A rewritten load whose original had a keyword argument before a string,
\* and a rewritten load whose original had strings of no registry file.
C9_Witness ==
  /\ pc = "once"
  /\ \E i \in RewrittenLoads :
       \E k \in 1..Len(Args(Original(i))) :
         /\ Args(Original(i))[k].t # "str"
         /\ \E m \in (k + 1)..Len(Args(Original(i))) : Args(Original(i))[m].t = "str"
  /\ \E i \in RewrittenLoads : Len(UnknownArgs(Original(i))) >= 2

\* The registry files that get a new load: no load of the file in the
\* input, and a used symbol.
NewLoadFiles ==
  SelectSeq([l \in 1..Len(knownLoads) |-> knownLoads[l].file],
            LAMBDA f : /\ loadsOf(lfile, f) = {}
                       /\ (OwnedBy(f) \cap CalledKinds(lfile)) \ ImportedElsewhere(lfile) # {})

Replayed == SubSeq(lout1.stmts, Len(NewLoadFiles) + 1, Len(lout1.stmts))

Origin(s) == IF s.id < 0 THEN 0 - s.id ELSE s.id

\* C10: when anything changed, the output is the new loads, in registry
\* order, followed by the input statements in their original order, each
\* load of a registry file replaced at its position by its fixed form or
\* left out when fixed to deletion, every other statement the same node;
\* a new load is made only for a registry file without a load in the input
\* and with a used symbol.
C10_OutputShape ==
  (pc = "once" /\ lout1.changed) =>
    LET new == NewLoadFiles
        rest == SubSeq(lout1.stmts, Len(new) + 1, Len(lout1.stmts))
        origins == [k \in 1..Len(rest) |-> Origin(rest[k])]
        order == CHOOSE o \in MapOrders(lfile) : TRUE
    IN /\ Len(lout1.stmts) >= Len(new)
       /\ \A k \in 1..Len(new) :
            /\ IsLoad(lout1.stmts[k])
            /\ lout1.stmts[k].id = 0
            /\ lout1.stmts[k].list[1].v = new[k]
       /\ \A k \in 1..Len(rest) : origins[k] \in 1..Len(lfile)
       /\ \A k, m \in 1..Len(rest) : k < m => origins[k] < origins[m]
       /\ \A i \in (1..Len(lfile)) \ loads(lfile) :
            \E k \in 1..Len(rest) : rest[k] = lfile[i]
       /\ \A i \in loads(lfile) :
            IF fixedLoad(lfile, i, order) = Nil
              THEN \A k \in 1..Len(rest) : origins[k] # i
              ELSE \E k \in 1..Len(rest) : rest[k] = fixedLoad(lfile, i, order)

\* A new load, a load left out, a load replaced and an untouched call in
\* one file.
C10_Witness ==
  /\ pc = "once"
  /\ lout1.changed
  /\ Len(NewLoadFiles) >= 1
  /\ \E i \in loads(lfile) : \A k \in 1..Len(Replayed) : Origin(Replayed[k]) # i
  /\ \E k \in 1..Len(Replayed) : Replayed[k].id < 0
  /\ \E k \in 1..Len(Replayed) : Replayed[k].id > 0 /\ Replayed[k].t = "call"

====
